---- MODULE Spec2Model ----
(***************************************************************************)
(* Model of the DingTalk mini-program adapter layer (dd-sdk-mini-program). *)
(* Every exported function forwards a configuration object to the host     *)
(* object `dd` and turns the host's success/fail callbacks into a promise. *)
(*                                                                         *)
(* The repository holds several revisions of the one module; a function    *)
(* whose code differs between revisions is modelled once per variant, the  *)
(* variant of src/src/index.ts under the plain name.  The promise-returning*)
(* adapters of the two earliest revisions (src/unnamed/part_000, part_001) *)
(* are the code of src/src/index.ts, but for showActionSheet of part_001,  *)
(* which is the code of part_002.                                          *)
(***************************************************************************)
EXTENDS Integers, Sequences, FiniteSets, TLC

VARIABLES
    calls,      \* the adapter calls made so far, one record per call
    origin,     \* getHeaders harness: the value handed to getHeaders
    normalized, \* getHeaders harness: the value last returned by getHeaders
    passes,     \* getHeaders harness: how often getHeaders has been applied
    limit       \* the number of adapter calls the behaviour may make

vars == <<calls, origin, normalized, passes, limit>>

(***************************************************************************)
(* Bounds                                                                  *)
(***************************************************************************)
\* number of adapter calls one behaviour makes
MaxCalls == 1
\* number of adapter calls in flight together
MaxInFlight == 2
\* longest header array the host hands back
MaxHeaderEntries == 3
\* how often the harness re-applies getHeaders to its own result
MaxPasses == 2

(***************************************************************************)
(* JavaScript values, as tagged tuples.  An object is the sequence of its  *)
(* own properties <<key, value>> in insertion order, an array the sequence *)
(* of its elements.                                                        *)
(***************************************************************************)
Undefined == <<"undefined">>
Null == <<"null">>
Str(s) == <<"str", s>>
Num(n) == <<"num", n>>
Bool(b) == <<"bool", b>>
Obj(props) == <<"obj", props>>
Arr(elems) == <<"arr", elems>>
Fn(name) == <<"fn", name>>

IsUndefined(v) == v[1] = "undefined"
IsNullish(v) == v[1] \in {"undefined", "null"}
IsObj(v) == v[1] = "obj"
IsArray(v) == v[1] = "arr"

\* the positions of key k among the properties of object o (at most one)
KeyIndex(o, k) == {i \in 1..Len(o[2]) : o[2][i][1] = k}
HasKey(o, k) == IsObj(o) /\ KeyIndex(o, k) # {}
Keys(o) == {o[2][i][1] : i \in 1..Len(o[2])}

\* o[k]: the property's value, undefined when o has no own property k
Get(o, k) ==
    IF HasKey(o, k) THEN o[2][CHOOSE i \in KeyIndex(o, k) : TRUE][2] ELSE Undefined

\* o[k] = v, also `k: v` in an object literal: an existing key keeps its
\* position and takes the new value, a new key is appended
Put(o, k, v) ==
    IF HasKey(o, k)
    THEN Obj([i \in 1..Len(o[2]) |-> IF o[2][i][1] = k THEN <<k, v>> ELSE o[2][i]])
    ELSE Obj(Append(o[2], <<k, v>>))

\* Object.assign(target, src), also `...src` in an object literal: the own
\* properties of src are put into target in order; a nullish src adds nothing
RECURSIVE AssignFrom(_, _, _)
AssignFrom(target, props, i) ==
    IF i > Len(props) THEN target
    ELSE AssignFrom(Put(target, props[i][1], props[i][2]), props, i + 1)

ObjectAssign(target, src) ==
    IF IsObj(src) THEN AssignFrom(target, src[2], 1) ELSE target

\* the rest element of a destructuring pattern: the properties not picked
Rest(o, picked) == Obj(SelectSeq(o[2], LAMBDA p : p[1] \notin picked))

\* ToBoolean
Truthy(v) ==
    CASE v[1] \in {"undefined", "null"} -> FALSE
      [] v[1] = "str" -> v[2] # ""
      [] v[1] = "num" -> v[2] # 0
      [] v[1] = "bool" -> v[2]
      [] OTHER -> TRUE

\* a destructuring default `x = d`: d replaces undefined only
Default(v, d) == IF IsUndefined(v) THEN d ELSE v


\* an object literal, evaluated left to right: <<"...", v>> spreads v, any
\* other entry <<k, v>> is the property k: v
RECURSIVE LiteralFrom(_, _, _)
LiteralFrom(acc, entries, i) ==
    IF i > Len(entries) THEN acc
    ELSE LiteralFrom(
            IF entries[i][1] = "..." THEN ObjectAssign(acc, entries[i][2])
            ELSE Put(acc, entries[i][1], entries[i][2]),
            entries, i + 1)

Literal(entries) == LiteralFrom(Obj(<<>>), entries, 1)

(***************************************************************************)
(* JSON.stringify, on the values the model uses (strings hold no character *)
(* that needs escaping)                                                    *)
(***************************************************************************)
Digits == <<"0", "1", "2", "3", "4", "5", "6", "7", "8", "9">>

RECURSIVE NatToString(_)
NatToString(n) ==
    IF n < 10 THEN Digits[n + 1] ELSE NatToString(n \div 10) \o Digits[(n % 10) + 1]

NumToString(n) == IF n < 0 THEN "-" \o NatToString(-n) ELSE NatToString(n)

\* values JSON.stringify leaves out of an object and turns to null in an array
Unserializable(v) == v[1] \in {"undefined", "fn"}

RECURSIVE JSONtext(_), JSONprops(_, _, _), JSONelems(_, _)
JSONtext(v) ==
    CASE v[1] = "null" -> "null"
      [] v[1] = "str" -> "\"" \o v[2] \o "\""
      [] v[1] = "num" -> NumToString(v[2])
      [] v[1] = "bool" -> IF v[2] THEN "true" ELSE "false"
      [] v[1] = "obj" -> "{" \o JSONprops(v[2], 1, TRUE) \o "}"
      [] v[1] = "arr" -> "[" \o JSONelems(v[2], 1) \o "]"

JSONprops(props, i, first) ==
    IF i > Len(props) THEN ""
    ELSE IF Unserializable(props[i][2]) THEN JSONprops(props, i + 1, first)
    ELSE (IF first THEN "" ELSE ",")
            \o "\"" \o props[i][1] \o "\":" \o JSONtext(props[i][2])
            \o JSONprops(props, i + 1, FALSE)

JSONelems(elems, i) ==
    IF i > Len(elems) THEN ""
    ELSE (IF i = 1 THEN "" ELSE ",")
            \o (IF Unserializable(elems[i]) THEN "null" ELSE JSONtext(elems[i]))
            \o JSONelems(elems, i + 1)

\* a body handed on as it came, not encoded
JSONstringify_unencoded(v) == v

JSONstringify(v) == IF Unserializable(v) THEN Undefined ELSE Str(JSONtext(v))

(***************************************************************************)
(* getHeaders: the host sometimes returns the response headers as an array *)
(* of objects; fold them into one object.                                  *)
(***************************************************************************)
RECURSIVE forEachAssign(_, _, _)
forEachAssign(obj, elems, i) ==
    IF i > Len(elems) THEN obj
    ELSE forEachAssign(ObjectAssign(obj, elems[i]), elems, i + 1)

\* the fold run from the right: the first occurrence of a key wins
getHeaders_firstWins(o) ==
    IF IsArray(o)
    THEN forEachAssign(Obj(<<>>), [i \in 1..Len(o[2]) |-> o[2][Len(o[2]) + 1 - i]], 1)
    ELSE o

\* a normalizer that folds whatever it is given: a single mapping is not an
\* array, and comes out empty
getHeaders_foldsAll(o) ==
    IF IsArray(o) THEN forEachAssign(Obj(<<>>), o[2], 1) ELSE Obj(<<>>)

getHeaders(o) ==
    IF IsArray(o) THEN forEachAssign(Obj(<<>>), o[2], 1) ELSE o

(***************************************************************************)
(* Promises and the callbacks the adapters hand to the host                *)
(***************************************************************************)
Pending == [state |-> "pending", value |-> Undefined]

\* the promise's resolve and reject functions: the first call settles the
\* promise, later calls do nothing
\* a resolve that completes the promise but loses the payload
resolve_dropped(p, v) == IF p.state = "pending" THEN [state |-> "fulfilled", value |-> Undefined] ELSE p

\* a resolve that takes every call, also one made after the promise is settled
resolve_again(p, v) == [state |-> "fulfilled", value |-> v]

resolve(p, v) == IF p.state = "pending" THEN [state |-> "fulfilled", value |-> v] ELSE p

\* a reject that wraps the host's reason in an error object of its own
reject_wrapped(p, r) ==
    IF p.state = "pending"
    THEN [state |-> "rejected", value |-> Obj(<< <<"message", Str("host call failed")>>, <<"cause", r>> >>)]
    ELSE p

reject(p, r) == IF p.state = "pending" THEN [state |-> "rejected", value |-> r] ELSE p

\* the outcome of running a callback: the promise afterwards, and whether the
\* callback raised an exception into the host
Ran(p) == [promise |-> p, threw |-> FALSE]
Raised(p) == [promise |-> p, threw |-> TRUE]

\* success(res) { resolve(res.<field>) }
resolveField(p, res, field) ==
    IF IsNullish(res) THEN Raised(p) ELSE Ran(resolve(p, Get(res, field)))

\* a success callback that hands the response on with its headers as they came
httpRequest_success_raw(p, res) ==
    IF IsNullish(res) THEN Raised(p) ELSE Ran(resolve(p, res))

\* httpRequest's success callback
httpRequest_success(p, res) ==
    IF IsNullish(res) THEN Raised(p)
    ELSE Ran(resolve(p, Put(res, "headers", getHeaders(Get(res, "headers")))))

\* the function values found under `success` and `fail`:
\*   Fn("resolve"), Fn("reject")     the promise's own functions
\*   Fn("resolve(res)")              (res) => { resolve(res) }
\*   <<"fn", "resolve(res.)", f>>    (res) => { resolve(res.f) }
\*   Fn("httpRequest.success")       httpRequest's success callback
\*   Fn("caller.success") etc.       a function of the caller's
Project(f) == <<"fn", "resolve(res.)", f>>

IsFunction(v) == v[1] = "fn"

Apply(fn, p, x) ==
    CASE fn = Fn("resolve") -> Ran(resolve(p, x))
      [] fn = Fn("reject") -> Ran(reject(p, x))
      [] fn = Fn("resolve(res)") -> Ran(resolve(p, x))
      [] fn[2] = "resolve(res.)" -> resolveField(p, x, fn[3])
      [] fn = Fn("httpRequest.success") -> httpRequest_success(p, x)
      [] OTHER -> Ran(p)

(***************************************************************************)
(* One adapter call.                                                       *)
(*   op        the adapter                                                 *)
(*   arg       the argument the caller passed                              *)
(*   argAfter  the caller's argument object once the adapter has returned  *)
(*   result    "promise": the adapter called the host and returned a       *)
(*             promise; "threw": it raised before calling the host;        *)
(*             "value": it returned what the host returned; "resolved":    *)
(*             it returned Promise.resolve(what the host returned)         *)
(*   host      the configuration object the host entry point received      *)
(*   promise   the returned promise                                        *)
(*   fired     the first callback the host invoked, <<kind, payload>>      *)
(*   cbThrew   a callback of the adapter raised inside the host            *)
(*   hostCalls the calls of the host entry point the adapter has made      *)
(*   hostReturn what the host entry point returned to the adapter          *)
(*   returned  what the adapter returned, when that is not a promise       *)
(*   later     the host invoked a callback after the promise was settled   *)
(***************************************************************************)
NewCall(op, arg, argAfter, cfg) ==
    [op |-> op, arg |-> arg, argAfter |-> argAfter, result |-> "promise",
     host |-> cfg, promise |-> Pending, fired |-> <<>>, cbThrew |-> FALSE,
     hostCalls |-> 1, hostReturn |-> Undefined, returned |-> Undefined, later |-> FALSE]

Thrown(op, arg) ==
    [op |-> op, arg |-> arg, argAfter |-> arg, result |-> "threw",
     host |-> Undefined, promise |-> Pending, fired |-> <<>>, cbThrew |-> FALSE,
     hostCalls |-> 0, hostReturn |-> Undefined, returned |-> Undefined, later |-> FALSE]

\* the model makes at most `limit` calls
CanCall == Len(calls) < limit

Record(c) ==
    /\ calls' = Append(calls, c)
    /\ UNCHANGED <<origin, normalized, passes, limit>>

\* return new Promise((resolve, reject) => { dd.<op>(cfg) })
Call(op, arg, argAfter, cfg) == Record(NewCall(op, arg, argAfter, cfg))

\* a TypeError raised before the host is called
Throw(op, arg) == Record(Thrown(op, arg))

(***************************************************************************)
(* What the callers pass and what the host answers                         *)
(***************************************************************************)
Url == Str("/pages/index")
JsonType == Str("application/json")
FormType == Str("application/x-www-form-urlencoded")
Body == Obj(<< <<"x", Num(1)>> >>)
CallerCallbacks == << <<"success", Fn("caller.success")>>, <<"fail", Fn("caller.fail")>> >>

Dialog == << <<"title", Str("T")>>, <<"content", Str("C")>> >>
Request == << <<"url", Str("https://h/api")>>, <<"method", Str("POST")>> >>

alertArgs == {Obj(Dialog)}

confirmArgs == {Obj(Dialog), Obj(Dialog \o CallerCallbacks)}

showToastArgs ==
    {Undefined, Obj(<< <<"content", Str("hi")>> >>),
     Obj(<< <<"type", Str("success")>>, <<"duration", Num(3000)>> >>),
     Obj(<< <<"content", Str("hi")>> >> \o CallerCallbacks)}

showLoadingArgs ==
    {Undefined, Obj(<< <<"content", Str("wait")>> >>), Obj(<< <<"delay", Num(500)>> >>)}

showActionSheetArgs == {Obj(<< <<"items", Arr(<<Str("a"), Str("b")>>)>> >>)}

httpRequestArgs ==
    {Obj(Request \o << <<"data", Body>> >>),
     Obj(Request),
     Obj(Request \o << <<"headers", Obj(<< <<"Content-Type", FormType>> >>)>>,
                       <<"data", Body>> >>),
     Obj(Request \o << <<"headers", Obj(<< <<"Content-Type", JsonType>> >>)>>,
                       <<"data", Str("[]")>> >>),
     Obj(Request \o << <<"headers", Obj(<< <<"Accept", Str("text/plain")>> >>)>>,
                       <<"data", Body>> >>),
     Obj(Request \o << <<"headers", Obj(<< <<"content-type", FormType>> >>)>>,
                       <<"data", Str("a=1")>> >>),
     Obj(Request \o << <<"headers", Null>> >>),
     Obj(Request \o << <<"data", Body>> >> \o CallerCallbacks),
     Undefined}

Upload ==
    << <<"url", Str("https://h/up")>>, <<"filePath", Str("/tmp/f")>>,
       <<"fileName", Str("file")>>, <<"fileType", Str("image")>> >>

uploadFileArgs == {Obj(Upload), Obj(Upload \o CallerCallbacks)}

downloadFileArgs == {Obj(<< <<"url", Str("https://h/f")>> >>)}

\* failure reasons of the host
Reasons == {Obj(<< <<"error", Num(3)>> >>), Str("cancel")}

HeaderA1 == Obj(<< <<"A", Str("1")>> >>)
HeaderA2 == Obj(<< <<"A", Str("2")>> >>)
HeaderB2 == Obj(<< <<"B", Str("2")>> >>)

Response(headers) ==
    Obj(<< <<"data", Str("ok")>>, <<"status", Num(200)>>, <<"headers", headers>> >>)

\* success payloads of the host, per entry point
Payloads(op) ==
    CASE op = "httpRequest" ->
            {Response(Arr(<<HeaderA1, HeaderB2>>)), Response(Arr(<<HeaderA1, HeaderA2>>)),
             Response(Obj(<< <<"A", Str("1")>>, <<"B", Str("2")>> >>)),
             Obj(<< <<"data", Str("ok")>>, <<"status", Num(404)>> >>), Undefined}
      [] op \in {"showActionSheet", "showActionSheet_part_002"} ->
            {Obj(<< <<"index", Num(-1)>> >>), Obj(<< <<"index", Num(1)>> >>), Undefined}
      [] op = "getAuthCode" ->
            {Obj(<< <<"authCode", Str("c0de")>> >>), Obj(<< <<"authCode", Str("c1de")>> >>),
             Undefined}
      [] op = "datePicker" -> {Obj(<< <<"date", Str("2019-06-01")>> >>), Undefined}
      [] op = "createGroupChat" ->
            {Obj(<< <<"id", Arr(<<Str("g1")>>)>> >>), Obj(<< <<"id", Str("g1")>> >>), Undefined}
      [] op = "getStorage" ->
            {Obj(<< <<"data", Null>> >>), Obj(<< <<"data", Str("v")>> >>), Undefined}
      [] op \in {"alert", "redirectTo", "setStorage", "removeStorage"} ->
            {Undefined, Obj(<< <<"ok", Bool(TRUE)>> >>)}
      [] OTHER -> {Obj(<< <<"ok", Bool(TRUE)>> >>)}

(***************************************************************************)
(* The adapters of src/src/index.ts                                        *)
(***************************************************************************)
alert ==
    \E arg \in alertArgs :
        /\ CanCall
        /\ IF IsNullish(arg) THEN Throw("alert", arg)
           ELSE Call("alert", arg, arg,
                   Literal(<< <<"title", Get(arg, "title")>>,
                              <<"content", Get(arg, "content")>>,
                              <<"buttonText", Get(arg, "buttonText")>>,
                              <<"success", Fn("resolve")>>,
                              <<"fail", Fn("reject")>> >>))

confirm ==
    \E opt \in confirmArgs :
        /\ CanCall
        /\ LET cfg ==
                   Literal(<< <<"...", opt>>,
                              <<"success", Fn("resolve")>>,
                              <<"fail", Fn("reject")>> >>)
           IN  Call("confirm", opt, opt, cfg)

showToast ==
    \E opt \in showToastArgs :
        /\ CanCall
        /\ LET cfg ==
                   Literal(<< <<"...", opt>>,
                              <<"success", Fn("resolve")>>,
                              <<"fail", Fn("reject")>> >>)
           IN  Call("showToast", opt, opt, cfg)

showLoading ==
    \E opt \in showLoadingArgs :
        /\ CanCall
        /\ LET cfg ==
                   Literal(<< <<"...", opt>>,
                              <<"success", Fn("resolve")>>,
                              <<"fail", Fn("reject")>> >>)
           IN  Call("showLoading", opt, opt, cfg)

showActionSheet ==
    \E opt \in showActionSheetArgs :
        /\ CanCall
        /\ LET cfg ==
                   Literal(<< <<"...", opt>>,
                              <<"success", Fn("resolve(res)")>>,
                              <<"fail", Fn("reject")>> >>)
           IN  Call("showActionSheet", opt, opt, cfg)

\* success: (res) => resolve(res)
getAuthCode_whole ==
    /\ CanCall
    /\ LET cfg ==
               Literal(<< <<"success", Fn("resolve(res)")>>,
                          <<"fail", Fn("reject")>> >>)
       IN  Call("getAuthCode", Undefined, Undefined, cfg)

getAuthCode ==
    /\ CanCall
    /\ LET cfg ==
               Literal(<< <<"success", Project("authCode")>>,
                          <<"fail", Fn("reject")>> >>)
       IN  Call("getAuthCode", Undefined, Undefined, cfg)

\* the JSON default applied whatever headers the caller gave
httpRequest_always(headers) == TRUE

\* if (!headers["Content-Type"])
httpRequest_noContentType(headers) == ~Truthy(Get(headers, "Content-Type"))

httpRequest ==
    \E opt \in httpRequestArgs :
        /\ CanCall
        /\ IF IsNullish(opt) \/ IsNullish(Default(Get(opt, "headers"), Obj(<<>>)))
           THEN Throw("httpRequest", opt)
           ELSE
               LET given == ~IsUndefined(Get(opt, "headers"))
                   headers0 == Default(Get(opt, "headers"), Obj(<<>>))
                   data0 == Get(opt, "data")
                   rest == Rest(opt, {"headers", "data"})
                   inject == httpRequest_noContentType(headers0)
                   headers == IF inject THEN Put(headers0, "Content-Type", JsonType)
                              ELSE headers0
                   data == IF inject THEN JSONstringify(data0) ELSE data0
               IN  Call("httpRequest", opt,
                       IF given THEN Put(opt, "headers", headers) ELSE opt,
                       Literal(<< <<"headers", headers>>,
                                  <<"data", data>>,
                                  <<"success", Fn("httpRequest.success")>>,
                                  <<"fail", Fn("reject")>>,
                                  <<"...", rest>> >>))

uploadFile ==
    \E opt \in uploadFileArgs :
        /\ CanCall
        /\ LET cfg ==
                   Literal(<< <<"...", opt>>,
                              <<"success", Fn("resolve(res)")>>,
                              <<"fail", Fn("reject")>> >>)
           IN  Call("uploadFile", opt, opt, cfg)

downloadFile ==
    \E opt \in downloadFileArgs :
        /\ CanCall
        /\ LET cfg ==
                   Literal(<< <<"...", opt>>,
                              <<"success", Fn("resolve(res)")>>,
                              <<"fail", Fn("reject")>> >>)
           IN  Call("downloadFile", opt, opt, cfg)

redirectTo ==
    /\ CanCall
    /\ LET cfg ==
               Literal(<< <<"url", Url>>,
                          <<"success", Fn("resolve")>>,
                          <<"fail", Fn("reject")>> >>)
       IN  Call("redirectTo", Url, Url, cfg)

(***************************************************************************)
(* The adapters of the later revision (src/unnamed/part_002).  Those that  *)
(* differ from src/src/index.ts carry the suffix _part_002; alert, confirm,*)
(* getAuthCode, httpRequest, uploadFile, downloadFile and redirectTo are   *)
(* the same code in both.                                                  *)
(***************************************************************************)
showToast_part_002Args == showToastArgs

showLoading_part_002Args == showLoadingArgs

setNavigationBarArgs ==
    {Undefined, Obj(<< <<"title", Str("T")>> >>), Obj(<< <<"reset", Bool(TRUE)>> >>)}

datePickerArgs == {Obj(<< <<"format", Str("yyyy-MM-dd")>> >>)}

getLocationArgs == {Undefined, Obj(<< <<"type", Num(1)>> >>)}

openLocationArgs ==
    {Obj(<< <<"longitude", Str("120.1")>>, <<"latitude", Str("30.2")>>,
            <<"name", Str("N")>>, <<"address", Str("A")>> >>)}

scanArgs == {Undefined, Str("bar")}

UserIds == Arr(<<Str("u1"), Str("u2")>>)

pickerArgs == {Obj(<< <<"title", Str("T")>>, <<"limitTips", Str("L")>> >>)}

chooseUserFromListArgs == {Obj(<< <<"title", Str("T")>>, <<"users", UserIds>> >>)}

setStorageArgs == {Obj(<< <<"key", Str("k")>>, <<"data", Str("v")>> >>)}

StorageKey == Str("k")

showToast_part_002 ==
    \E arg \in showToast_part_002Args :
        /\ CanCall
        /\ LET o == Default(arg, Obj(<<>>))
           IN  IF IsNullish(o) THEN Throw("showToast_part_002", arg)
               ELSE Call("showToast_part_002", arg, arg,
                       Literal(<< <<"content", Get(o, "content")>>,
                              <<"type", Default(Get(o, "type"), Str("none"))>>,
                              <<"duration", Default(Get(o, "duration"), Num(2000))>>,
                              <<"success", Fn("resolve")>>,
                              <<"fail", Fn("reject")>> >>))

showLoading_part_002 ==
    \E arg \in showLoading_part_002Args :
        /\ CanCall
        /\ LET o == Default(arg, Obj(<<>>))
           IN  IF IsNullish(o) THEN Throw("showLoading_part_002", arg)
               ELSE Call("showLoading_part_002", arg, arg,
                       Literal(<< <<"content", Get(o, "content")>>,
                              <<"delay", Default(Get(o, "delay"), Num(0))>>,
                              <<"success", Fn("resolve")>>,
                              <<"fail", Fn("reject")>> >>))

showActionSheet_part_002 ==
    \E opt \in showActionSheetArgs :
        /\ CanCall
        /\ LET cfg ==
                   Literal(<< <<"...", opt>>,
                              <<"success", Project("index")>>,
                              <<"fail", Fn("reject")>> >>)
           IN  Call("showActionSheet_part_002", opt, opt, cfg)

navigateTo ==
    /\ CanCall
    /\ LET cfg ==
               Literal(<< <<"url", Url>>,
                          <<"success", Fn("resolve")>>,
                          <<"fail", Fn("reject")>> >>)
       IN  Call("navigateTo", Url, Url, cfg)

reLaunch ==
    /\ CanCall
    /\ LET cfg ==
               Literal(<< <<"url", Url>>,
                          <<"success", Fn("resolve")>>,
                          <<"fail", Fn("reject")>> >>)
       IN  Call("reLaunch", Url, Url, cfg)

setNavigationBar ==
    \E arg \in setNavigationBarArgs :
        /\ CanCall
        /\ LET o == Default(arg, Obj(<<>>))
           IN  IF IsNullish(o) THEN Throw("setNavigationBar", arg)
               ELSE Call("setNavigationBar", arg, arg,
                       Literal(<< <<"title", Get(o, "title")>>,
                              <<"backgroundColor", Get(o, "backgroundColor")>>,
                              <<"reset", Default(Get(o, "reset"), Bool(FALSE))>>,
                              <<"success", Fn("resolve")>>,
                              <<"fail", Fn("reject")>> >>))

setNavigationBar_spread ==
    \E opt \in setNavigationBarArgs :
        /\ CanCall
        /\ LET cfg ==
                   Literal(<< <<"...", opt>>,
                              <<"success", Fn("resolve")>>,
                              <<"fail", Fn("reject")>> >>)
           IN  Call("setNavigationBar_spread", opt, opt, cfg)

switchTab ==
    /\ CanCall
    /\ LET cfg ==
               Literal(<< <<"url", Url>>,
                          <<"success", Fn("resolve")>>,
                          <<"fail", Fn("reject")>> >>)
       IN  Call("switchTab", Url, Url, cfg)

\* success: (res) => resolve(res)
datePicker_whole ==
    \E opt \in datePickerArgs :
        /\ CanCall
        /\ LET cfg ==
                   Literal(<< <<"...", opt>>,
                              <<"success", Fn("resolve(res)")>>,
                              <<"fail", Fn("reject")>> >>)
           IN  Call("datePicker", opt, opt, cfg)

datePicker ==
    \E opt \in datePickerArgs :
        /\ CanCall
        /\ LET cfg ==
                   Literal(<< <<"...", opt>>,
                              <<"success", Project("date")>>,
                              <<"fail", Fn("reject")>> >>)
           IN  Call("datePicker", opt, opt, cfg)

getLocation ==
    \E arg \in getLocationArgs :
        /\ CanCall
        /\ LET o == Default(arg, Obj(<<>>))
           IN  IF IsNullish(o) THEN Throw("getLocation", arg)
               ELSE Call("getLocation", arg, arg,
                       Literal(<< <<"cacheTimeout", Default(Get(o, "cacheTimeout"), Num(30))>>,
                              <<"type", Get(o, "type")>>,
                              <<"success", Fn("resolve(res)")>>,
                              <<"fail", Fn("reject")>> >>))

openLocation ==
    \E arg \in openLocationArgs :
        /\ CanCall
        /\ LET o == arg
           IN  IF IsNullish(o) THEN Throw("openLocation", arg)
               ELSE Call("openLocation", arg, arg,
                       Literal(<< <<"longitude", Get(o, "longitude")>>,
                              <<"latitude", Get(o, "latitude")>>,
                              <<"name", Get(o, "name")>>,
                              <<"address", Get(o, "address")>>,
                              <<"scale", Default(Get(o, "scale"), Num(15))>>,
                              <<"success", Fn("resolve")>>,
                              <<"fail", Fn("reject")>> >>))

scan ==
    \E arg \in scanArgs :
        /\ CanCall
        /\ LET cfg ==
                   Literal(<< <<"type", Default(arg, Str("qr"))>>,
                              <<"success", Fn("resolve(res)")>>,
                              <<"fail", Fn("reject")>> >>)
           IN  Call("scan", arg, arg, cfg)

complexChoose ==
    \E opt \in pickerArgs :
        /\ CanCall
        /\ LET cfg ==
                   Literal(<< <<"...", opt>>,
                              <<"success", Fn("resolve(res)")>>,
                              <<"fail", Fn("reject")>> >>)
           IN  Call("complexChoose", opt, opt, cfg)

chooseDepartments ==
    \E opt \in pickerArgs :
        /\ CanCall
        /\ LET cfg ==
                   Literal(<< <<"...", opt>>,
                              <<"success", Fn("resolve(res)")>>,
                              <<"fail", Fn("reject")>> >>)
           IN  Call("chooseDepartments", opt, opt, cfg)

\* the lists of user ids a caller passes to createGroupChat
createGroupChatArgs == {UserIds, Arr(<<>>)}

\* success: (res) => resolve(res)
createGroupChat_whole ==
    \E users \in createGroupChatArgs :
        /\ CanCall
        /\ LET cfg ==
                   Literal(<< <<"users", users>>,
                              <<"success", Fn("resolve(res)")>>,
                              <<"fail", Fn("reject")>> >>)
           IN  Call("createGroupChat", users, users, cfg)

createGroupChat ==
    \E users \in createGroupChatArgs :
        /\ CanCall
        /\ LET cfg ==
                   Literal(<< <<"users", users>>,
                              <<"success", Project("id")>>,
                              <<"fail", Fn("reject")>> >>)
           IN  Call("createGroupChat", users, users, cfg)

choosePhonebook ==
    \E arg \in pickerArgs :
        /\ CanCall
        /\ LET o == arg
           IN  IF IsNullish(o) THEN Throw("choosePhonebook", arg)
               ELSE Call("choosePhonebook", arg, arg,
                       Literal(<< <<"title", Get(o, "title")>>,
                              <<"multiple", Default(Get(o, "multiple"), Bool(TRUE))>>,
                              <<"limitTips", Get(o, "limitTips")>>,
                              <<"maxUsers", Get(o, "maxUsers")>>,
                              <<"success", Fn("resolve(res)")>>,
                              <<"fail", Fn("reject")>> >>))

chooseExternalUsers ==
    \E arg \in pickerArgs :
        /\ CanCall
        /\ LET o == arg
           IN  IF IsNullish(o) THEN Throw("chooseExternalUsers", arg)
               ELSE Call("chooseExternalUsers", arg, arg,
                       Literal(<< <<"title", Get(o, "title")>>,
                              <<"multiple", Default(Get(o, "multiple"), Bool(TRUE))>>,
                              <<"limitTips", Get(o, "limitTips")>>,
                              <<"maxUsers", Get(o, "maxUsers")>>,
                              <<"pickedUsers", Get(o, "pickedUsers")>>,
                              <<"disabledUsers", Get(o, "disabledUsers")>>,
                              <<"requiredUsers", Get(o, "requiredUsers")>>,
                              <<"success", Fn("resolve(res)")>>,
                              <<"fail", Fn("reject")>> >>))

editExternalUser ==
    \E opt \in pickerArgs :
        /\ CanCall
        /\ LET cfg ==
                   Literal(<< <<"...", opt>>,
                              <<"success", Fn("resolve(res)")>>,
                              <<"fail", Fn("reject")>> >>)
           IN  Call("editExternalUser", opt, opt, cfg)

chooseUserFromList ==
    \E arg \in chooseUserFromListArgs :
        /\ CanCall
        /\ LET o == arg
           IN  IF IsNullish(o) THEN Throw("chooseUserFromList", arg)
               ELSE Call("chooseUserFromList", arg, arg,
                       Literal(<< <<"title", Get(o, "title")>>,
                              <<"users", Get(o, "users")>>,
                              <<"isShowCompanyName", Default(Get(o, "isShowCompanyName"), Bool(FALSE))>>,
                              <<"disabledUsers", Get(o, "disabledUsers")>>,
                              <<"success", Fn("resolve(res)")>>,
                              <<"fail", Fn("reject")>> >>))

setStorage ==
    \E opt \in setStorageArgs :
        /\ CanCall
        /\ LET cfg ==
                   Literal(<< <<"...", opt>>,
                              <<"success", Fn("resolve")>>,
                              <<"fail", Fn("reject")>> >>)
           IN  Call("setStorage", opt, opt, cfg)

\* success: (res) => resolve(res)
getStorage_whole ==
    /\ CanCall
    /\ LET cfg ==
               Literal(<< <<"key", StorageKey>>,
                          <<"success", Fn("resolve(res)")>>,
                          <<"fail", Fn("reject")>> >>)
       IN  Call("getStorage", StorageKey, StorageKey, cfg)

getStorage ==
    /\ CanCall
    /\ LET cfg ==
               Literal(<< <<"key", StorageKey>>,
                          <<"success", Project("data")>>,
                          <<"fail", Fn("reject")>> >>)
       IN  Call("getStorage", StorageKey, StorageKey, cfg)

removeStorage ==
    /\ CanCall
    /\ LET cfg ==
               Literal(<< <<"key", StorageKey>>,
                          <<"success", Fn("resolve")>>,
                          <<"fail", Fn("reject")>> >>)
       IN  Call("removeStorage", StorageKey, StorageKey, cfg)

(***************************************************************************)
(* The adapters of synchronous host entry points                           *)
(***************************************************************************)
\* what a synchronous host entry point returns
HostReturns(op) ==
    CASE op \in {"getSystemInfoSync", "getSystemInfoSync_part_000"} ->
            {Obj(<< <<"model", Str("iPhone")>> >>)}
      [] op \in {"createCanvasContext", "createCanvasContext_part_000"} ->
            {Obj(<< <<"canvas", Str("c1")>> >>)}
      [] op \in {"createSelectorQuery", "createSelectorQuery_part_000"} ->
            {Obj(<< <<"query", Str("q")>> >>)}
      [] op = "createAnimation" -> {Obj(<< <<"animation", Str("a")>> >>)}
      [] op = "getStorageSync" -> {Obj(<< <<"data", Str("v")>> >>), Obj(<< <<"data", Null>> >>)}
      [] OTHER -> {Undefined}

\* return dd.<op>(cfg)
Return(op, arg, cfg, v) ==
    Record([NewCall(op, arg, arg, cfg) EXCEPT !.result = "value", !.hostReturn = v,
                                              !.returned = v])

\* return Promise.resolve(dd.<op>(cfg))
ReturnResolved(op, arg, cfg, v) ==
    Record([NewCall(op, arg, arg, cfg) EXCEPT !.result = "resolved", !.hostReturn = v,
                                              !.promise = resolve(Pending, v)])

\* return new Promise(...) around a host entry point that returns v at once
CallSync(op, arg, cfg, v) ==
    Record([NewCall(op, arg, arg, cfg) EXCEPT !.hostReturn = v])

CanvasId == Str("canvas-1")

SelectorParams == Obj(<< <<"page", Str("p")>> >>)

navigateBackArgs == {Undefined, Num(2)}

ScrollTop == Num(100)

createAnimationArgs ==
    {Undefined, Obj(<< <<"delay", Num(5)>> >>),
     Obj(<< <<"duration", Num(1000)>>, <<"timeFunction", Str("ease")>> >>)}

setStorageSyncArgs == {Obj(<< <<"key", Str("k")>>, <<"data", Str("v")>> >>)}

hideLoading ==
    \E v \in HostReturns("hideLoading") :
        /\ CanCall
        /\ Return("hideLoading", Undefined, Undefined, v)

getSystemInfoSync ==
    \E v \in HostReturns("getSystemInfoSync") :
        /\ CanCall
        /\ Return("getSystemInfoSync", Undefined, Undefined, v)

getSystemInfoSync_part_000 ==
    \E v \in HostReturns("getSystemInfoSync_part_000") :
        /\ CanCall
        /\ LET cfg ==
                   Literal(<< <<"success", Fn("resolve(res)")>>,
                              <<"fail", Fn("reject")>> >>)
           IN  CallSync("getSystemInfoSync_part_000", Undefined, cfg, v)

createCanvasContext ==
    \E v \in HostReturns("createCanvasContext") :
        /\ CanCall
        /\ Return("createCanvasContext", CanvasId, CanvasId, v)

createCanvasContext_part_000 ==
    \E v \in HostReturns("createCanvasContext_part_000") :
        /\ CanCall
        /\ ReturnResolved("createCanvasContext_part_000", CanvasId, CanvasId, v)

createSelectorQuery ==
    \E v \in HostReturns("createSelectorQuery") :
        /\ CanCall
        /\ Return("createSelectorQuery", Undefined, Undefined, v)

createSelectorQuery_part_000 ==
    \E v \in HostReturns("createSelectorQuery_part_000") :
        /\ CanCall
        /\ ReturnResolved("createSelectorQuery_part_000", SelectorParams, SelectorParams, v)

navigateBack ==
    \E arg \in navigateBackArgs, v \in HostReturns("navigateBack") :
        /\ CanCall
        /\ LET delta == Default(arg, Num(1))
           IN  Return("navigateBack", arg, Literal(<< <<"delta", delta>> >>), v)

navigateBack_required ==
    \E delta \in navigateBackArgs, v \in HostReturns("navigateBack_required") :
        /\ CanCall
        /\ Return("navigateBack_required", delta, Literal(<< <<"delta", delta>> >>), v)

stopPullDownRefresh ==
    \E v \in HostReturns("stopPullDownRefresh") :
        /\ CanCall
        /\ Return("stopPullDownRefresh", Undefined, Undefined, v)

createAnimation ==
    \E arg \in createAnimationArgs, v \in HostReturns("createAnimation") :
        /\ CanCall
        /\ LET opt == Default(arg, Obj(<<>>))
               cfg ==
                   Literal(<< <<"duration", Default(Get(opt, "duration"), Num(400))>>,
                              <<"timeFunction", Default(Get(opt, "timeFunction"), Str("linear"))>>,
                              <<"delay", Default(Get(opt, "delay"), Num(0))>>,
                              <<"transformOrigin",
                                Default(Get(opt, "transformOrigin"), Str("50"))>> >>)
           IN  Return("createAnimation", arg, cfg, v)

hideKeyboard ==
    \E v \in HostReturns("hideKeyboard") :
        /\ CanCall
        /\ Return("hideKeyboard", Undefined, Undefined, v)

pageScrollTo ==
    \E v \in HostReturns("pageScrollTo") :
        /\ CanCall
        /\ Return("pageScrollTo", ScrollTop, Literal(<< <<"scrollTop", ScrollTop>> >>), v)

setStorageSync ==
    \E opt \in setStorageSyncArgs, v \in HostReturns("setStorageSync") :
        /\ CanCall
        /\ Return("setStorageSync", opt, opt, v)

getStorageSync ==
    \E v \in HostReturns("getStorageSync") :
        /\ CanCall
        /\ Return("getStorageSync", StorageKey, Literal(<< <<"key", StorageKey>> >>), v)

removeStorageSync ==
    \E v \in HostReturns("removeStorageSync") :
        /\ CanCall
        /\ Return("removeStorageSync", StorageKey, Literal(<< <<"key", StorageKey>> >>), v)

(***************************************************************************)
(* The host: it invokes a callback it was handed, with a payload of its    *)
(* own.  Its contract is one callback, once; the model lets it call again. *)
(***************************************************************************)
\* adapters that keep resolve and reject in variables of the module, which
\* every call overwrites: a callback settles the promise of the latest call
dd_invoke_shared(i, kind, x) ==
    LET c == calls[i]
        fn == Get(c.host, kind)
        last == Len(calls)
        ran == Apply(fn, calls[last].promise, x)
        told == [calls EXCEPT ![i] =
                    [c EXCEPT !.later = c.later \/ c.promise.state # "pending",
                              !.fired = IF c.fired = <<>> THEN <<kind, x>> ELSE c.fired]]
    IN  /\ c.result = "promise"
        /\ IsFunction(fn)
        /\ calls' = [told EXCEPT ![last] =
                        [told[last] EXCEPT !.promise = ran.promise,
                                           !.cbThrew = told[last].cbThrew \/ ran.threw]]
        /\ UNCHANGED <<origin, normalized, passes, limit>>

dd_invoke(i, kind, x) ==
    LET c == calls[i]
        fn == Get(c.host, kind)
        ran == Apply(fn, c.promise, x)
    IN  /\ c.result = "promise"
        /\ IsFunction(fn)
        /\ calls' = [calls EXCEPT ![i] =
                        [c EXCEPT !.promise = ran.promise,
                                  !.cbThrew = c.cbThrew \/ ran.threw,
                                  !.later = c.later \/ c.promise.state # "pending",
                                  !.fired = IF c.fired = <<>> THEN <<kind, x>> ELSE c.fired]]
        /\ UNCHANGED <<origin, normalized, passes, limit>>

dd_success == \E i \in DOMAIN calls : \E res \in Payloads(calls[i].op) : dd_invoke(i, "success", res)

dd_fail == \E i \in DOMAIN calls : \E err \in Reasons : dd_invoke(i, "fail", err)

(***************************************************************************)
(* getHeaders on its own: the value the host hands back as the response's  *)
(* headers field is normalized, and the result normalized again.           *)
(***************************************************************************)
HeaderKeys == {"A", "B"}
HeaderValues == {Str("1"), Str("2")}

\* the single-key mappings
HeaderEntries == {Obj(<< <<k, v>> >>) : k \in HeaderKeys, v \in HeaderValues}

\* what an array of headers may hold: the single-key mappings, and one
\* mapping of two keys
ArrayEntries == HeaderEntries \cup {Obj(<< <<"B", Str("1")>>, <<"A", Str("2")>> >>)}

\* the arrays of at most n mappings
HeaderArrays(n) ==
    {Arr(es) : es \in UNION {[1..m -> ArrayEntries] : m \in 0..n}}

\* the single mappings: none, one or both of the keys, in either order
HeaderObjects ==
    {Obj(<<>>)} \cup HeaderEntries
    \cup {Obj(<< <<"A", v>>, <<"B", w>> >>) : v \in HeaderValues, w \in HeaderValues}
    \cup {Obj(<< <<"B", v>>, <<"A", w>> >>) : v \in HeaderValues, w \in HeaderValues}

HeaderInputs == HeaderArrays(MaxHeaderEntries) \cup HeaderObjects \cup {Undefined}

normalize ==
    /\ passes < MaxPasses
    /\ normalized' = getHeaders(IF passes = 0 THEN origin ELSE normalized)
    /\ passes' = passes + 1
    /\ UNCHANGED <<calls, origin, limit>>

InitHeaders ==
    /\ calls = <<>>
    /\ origin \in HeaderInputs
    /\ normalized = Undefined
    /\ passes = 0
    /\ limit = MaxCalls

NextHeaders == normalize

SpecHeaders == InitHeaders /\ [][NextHeaders]_vars

(***************************************************************************)
(* Specification                                                           *)
(***************************************************************************)
Init ==
    /\ calls = <<>>
    /\ origin = Undefined
    /\ normalized = Undefined
    /\ passes = 0
    /\ limit = MaxCalls

Next ==
    \/ alert
    \/ confirm
    \/ showToast
    \/ showLoading
    \/ showActionSheet
    \/ getAuthCode
    \/ httpRequest
    \/ uploadFile
    \/ downloadFile
    \/ redirectTo
    \/ showToast_part_002
    \/ showLoading_part_002
    \/ showActionSheet_part_002
    \/ navigateTo
    \/ reLaunch
    \/ setNavigationBar
    \/ setNavigationBar_spread
    \/ switchTab
    \/ datePicker
    \/ getLocation
    \/ openLocation
    \/ scan
    \/ complexChoose
    \/ chooseDepartments
    \/ createGroupChat
    \/ choosePhonebook
    \/ chooseExternalUsers
    \/ editExternalUser
    \/ chooseUserFromList
    \/ setStorage
    \/ getStorage
    \/ removeStorage
    \/ hideLoading
    \/ getSystemInfoSync
    \/ getSystemInfoSync_part_000
    \/ createCanvasContext
    \/ createCanvasContext_part_000
    \/ createSelectorQuery
    \/ createSelectorQuery_part_000
    \/ navigateBack
    \/ navigateBack_required
    \/ stopPullDownRefresh
    \/ createAnimation
    \/ hideKeyboard
    \/ pageScrollTo
    \/ setStorageSync
    \/ getStorageSync
    \/ removeStorageSync
    \/ dd_success
    \/ dd_fail

Spec == Init /\ [][Next]_vars

(***************************************************************************)
(* Calls in flight together: a page sends an httpRequest and, before the   *)
(* host has to answer, goes on calling getAuthCode or alert.               *)
(* The host answers the calls in any order, any number of times.           *)
(***************************************************************************)
InitInFlight ==
    /\ calls = <<>>
    /\ origin = Undefined
    /\ normalized = Undefined
    /\ passes = 0
    /\ limit = MaxInFlight

httpRequest_first ==
    /\ calls = <<>>
    /\ httpRequest

getAuthCode_inFlight ==
    /\ calls # <<>>
    /\ getAuthCode

alert_inFlight ==
    /\ calls # <<>>
    /\ alert

NextInFlight ==
    \/ httpRequest_first
    \/ getAuthCode_inFlight
    \/ alert_inFlight
    \/ dd_success
    \/ dd_fail

SpecInFlight == InitInFlight /\ [][NextInFlight]_vars

(***************************************************************************)
(* Properties                                                              *)
(***************************************************************************)
\* the calls in which the host's first callback was `kind`
Fired(kind) == {i \in DOMAIN calls : calls[i].fired # <<>> /\ calls[i].fired[1] = kind}

Fulfilled(v) == [state |-> "fulfilled", value |-> v]
Rejected(r) == [state |-> "rejected", value |-> r]

IdentityOps ==
    {"alert", "confirm", "redirectTo", "navigateTo", "reLaunch", "switchTab",
     "uploadFile", "downloadFile", "setStorage", "removeStorage", "getLocation",
     "scan", "complexChoose", "chooseDepartments", "choosePhonebook",
     "chooseExternalUsers", "editExternalUser", "chooseUserFromList"}

\* C2: for an adapter without projection, a host success with payload P
\* fulfils the returned promise with P itself.
C2_SuccessFulfilsWithPayload ==
    \A i \in Fired("success") :
        calls[i].op \in IdentityOps
            => calls[i].promise = Fulfilled(calls[i].fired[2])

C2_Witness ==
    \E i \in Fired("success") :
        /\ calls[i].op = "uploadFile"
        /\ IsObj(calls[i].fired[2])
        /\ calls[i].promise.state = "fulfilled"

\* the httpRequest calls that reached the host
Requests == {i \in DOMAIN calls : calls[i].op = "httpRequest" /\ calls[i].result = "promise"}

ExplicitNonJson(opt) ==
    /\ HasKey(opt, "headers")
    /\ HasKey(Get(opt, "headers"), "Content-Type")
    /\ Get(Get(opt, "headers"), "Content-Type")[1] = "str"
    /\ Get(Get(opt, "headers"), "Content-Type") \notin {Str(""), Str("application/json")}

\* C4: httpRequest with an explicit non-JSON Content-Type: the host receives
\* the caller's headers and the caller's data, as every other field, as
\* passed.
C4_ExplicitTypeUntouched ==
    \A i \in DOMAIN calls :
        (calls[i].op = "httpRequest" /\ ExplicitNonJson(calls[i].arg))
            => /\ calls[i].result = "promise"
               /\ Get(calls[i].host, "headers") = Get(calls[i].arg, "headers")
               /\ Get(calls[i].host, "data") = Get(calls[i].arg, "data")
               /\ \A k \in Keys(calls[i].arg) : Get(calls[i].host, k) = Get(calls[i].arg, k)

C4_Witness ==
    \E i \in Requests :
        /\ ExplicitNonJson(calls[i].arg)
        /\ Get(calls[i].arg, "data") = Body
        /\ Get(calls[i].host, "data") = Body

\* the last entry of es that has key k
LastWith(es, k) ==
    CHOOSE i \in 1..Len(es) : HasKey(es[i], k) /\ \A j \in (i + 1)..Len(es) : ~HasKey(es[j], k)

\* m is one mapping holding every key of the entries es once, each with the
\* value of its last occurrence
FoldOf(es, m) ==
    /\ IsObj(m)
    /\ \A k \in Keys(m) : Cardinality(KeyIndex(m, k)) = 1
    /\ Keys(m) = UNION {Keys(es[i]) : i \in 1..Len(es)}
    /\ \A k \in Keys(m) : Get(m, k) = Get(es[LastWith(es, k)], k)

\* h is the normalized form of the headers value raw
NormalizedOf(raw, h) == IF IsArray(raw) THEN FoldOf(raw[2], h) ELSE h = raw

C6_LastOccurrenceWins ==
    (passes >= 1 /\ IsArray(origin) /\ \A i \in 1..Len(origin[2]) : origin[2][i] \in HeaderEntries)
        => /\ FoldOf(origin[2], normalized)
           /\ origin = Arr(<<HeaderA1, HeaderB2>>)
                => normalized = Obj(<< <<"A", Str("1")>>, <<"B", Str("2")>> >>)
           /\ origin = Arr(<<HeaderA1, HeaderA2>>)
                => normalized = Obj(<< <<"A", Str("2")>> >>)
           /\ origin = Arr(<<>>) => normalized = Obj(<<>>)

C6_Witness ==
    /\ passes = 1
    /\ origin = Arr(<<HeaderA1, HeaderB2, HeaderA2>>)
    /\ normalized = Obj(<< <<"A", Str("2")>>, <<"B", Str("2")>> >>)

\* C7: normalizing is idempotent: normalizing a result again leaves it as it
\* is, and normalizing a single mapping returns that mapping.
C7_Idempotent ==
    [][/\ passes >= 1 => normalized' = normalized
       /\ (passes = 0 /\ IsObj(origin)) => normalized' = origin]_vars

C7_Witness ==
    /\ passes = 2
    /\ origin = Arr(<<HeaderA1, HeaderB2>>)
    /\ IsObj(normalized)

\* the argument of a call as an object: a missing argument has no fields
ArgOf(c) == IF IsObj(c.arg) THEN c.arg ELSE Obj(<<>>)

\* C8: showActionSheet fulfils its promise with the index field of the
\* host's success payload, an integer; index -1 gives -1 and no rejection.
C8_ResolvesWithIndex ==
    \A i \in Fired("success") :
        (calls[i].op \in {"showActionSheet", "showActionSheet_part_002"}
            /\ IsObj(calls[i].fired[2]))
            => calls[i].promise = Fulfilled(Get(calls[i].fired[2], "index"))

\* C9: showToast without type and duration: the host receives type "none"
\* and duration 2000; a type or duration the caller gives is handed on.
C9_ToastDefaults ==
    \A i \in DOMAIN calls :
        calls[i].op \in {"showToast", "showToast_part_002"}
            => /\ calls[i].result = "promise"
               /\ Get(calls[i].host, "type") = Default(Get(ArgOf(calls[i]), "type"), Str("none"))
               /\ Get(calls[i].host, "duration")
                    = Default(Get(ArgOf(calls[i]), "duration"), Num(2000))

\* C10: showLoading without delay: the host receives delay 0; a delay the
\* caller gives is handed on.
C10_LoadingDefault ==
    \A i \in DOMAIN calls :
        calls[i].op \in {"showLoading", "showLoading_part_002"}
            => /\ calls[i].result = "promise"
               /\ Get(calls[i].host, "delay") = Default(Get(ArgOf(calls[i]), "delay"), Num(0))

\* the calls of adapter `op` in which the host's first callback was success,
\* with a payload object
Answered(op) == {i \in Fired("success") : calls[i].op = op /\ IsObj(calls[i].fired[2])}

\* C11: when the host answers getAuthCode with a success payload, the promise
\* is fulfilled with the payload's authCode field, and never with the payload
\* itself.
C11_ResolvesWithAuthCode ==
    \A i \in Answered("getAuthCode") :
        /\ calls[i].promise = Fulfilled(Get(calls[i].fired[2], "authCode"))
        /\ calls[i].promise.value # calls[i].fired[2]

C11_Witness ==
    \E i \in Answered("getAuthCode") :
        /\ calls[i].fired[2] = Obj(<< <<"authCode", Str("c0de")>> >>)
        /\ calls[i].promise = Fulfilled(Str("c0de"))

\* C12: when the host answers getStorage with a success payload, the promise
\* is fulfilled with the payload's data field and nothing else; the null the
\* host supplies for an absent key fulfils the promise as it is, with no
\* default in its place and no rejection.
C12_ResolvesWithData ==
    \A i \in Answered("getStorage") :
        /\ calls[i].promise = Fulfilled(Get(calls[i].fired[2], "data"))
        /\ calls[i].promise.value # calls[i].fired[2]

C12_Witness ==
    \E i \in Answered("getStorage") :
        /\ calls[i].fired[2] = Obj(<< <<"data", Null>> >>)
        /\ calls[i].promise = Fulfilled(Null)

\* C13: when the host answers datePicker with a success payload, the promise
\* is fulfilled with the payload's date string, not with the payload.
C13_ResolvesWithDate ==
    \A i \in Answered("datePicker") :
        /\ calls[i].promise = Fulfilled(Get(calls[i].fired[2], "date"))
        /\ calls[i].promise.value # calls[i].fired[2]

C13_Witness ==
    \E i \in Answered("datePicker") :
        /\ calls[i].fired[2] = Obj(<< <<"date", Str("2019-06-01")>> >>)
        /\ calls[i].promise = Fulfilled(Str("2019-06-01"))

\* C14: createGroupChat(users) hands the host the caller's users list as it
\* is, and a success payload fulfils the promise with the payload's id field
\* exactly as the host supplied it, array or string.
C14_ForwardsUsersResolvesWithId ==
    \A i \in DOMAIN calls :
        calls[i].op = "createGroupChat" =>
            /\ Get(calls[i].host, "users") = calls[i].arg
            /\ i \in Answered("createGroupChat") =>
                   /\ calls[i].promise = Fulfilled(Get(calls[i].fired[2], "id"))
                   /\ calls[i].promise.value # calls[i].fired[2]

C14_Witness ==
    \E i \in Answered("createGroupChat") :
        /\ calls[i].arg = UserIds
        /\ Get(calls[i].host, "users") = UserIds
        /\ calls[i].fired[2] = Obj(<< <<"id", Arr(<<Str("g1")>>)>> >>)
        /\ calls[i].promise = Fulfilled(Arr(<<Str("g1")>>))

\* the adapters of synchronous host entry points
SyncAdapters ==
    {"hideLoading", "getSystemInfoSync", "getSystemInfoSync_part_000",
     "createCanvasContext", "createCanvasContext_part_000",
     "createSelectorQuery", "createSelectorQuery_part_000",
     "navigateBack", "navigateBack_required", "stopPullDownRefresh", "createAnimation",
     "hideKeyboard", "pageScrollTo", "setStorageSync", "getStorageSync", "removeStorageSync"}

\* C15: an adapter of a synchronous host entry point never suspends: what it
\* returns is the host's own return value, or a promise that is already
\* fulfilled with that value; it never returns a promise that waits for a
\* host callback.
C15_SyncNeverSuspends ==
    \A i \in DOMAIN calls :
        calls[i].op \in SyncAdapters =>
            \/ calls[i].result = "value" /\ calls[i].returned = calls[i].hostReturn
            \/ calls[i].result = "resolved" /\ calls[i].promise = Fulfilled(calls[i].hostReturn)

\* C16: a promise an adapter returned completes at most once: once it is
\* fulfilled or rejected, no later step, and so no later invocation of either
\* callback by the host, changes its outcome or its value.
C16_SettlesOnce ==
    [][\A i \in DOMAIN calls :
           calls[i].promise.state # "pending" => calls'[i].promise = calls[i].promise]_vars

C16_Witness ==
    \E i \in Fired("success") :
        /\ calls[i].later
        /\ Get(calls[i].host, "success") = Fn("resolve")
        /\ calls[i].promise = Fulfilled(calls[i].fired[2])

\* C17: every adapter invocation makes exactly one call of its host entry
\* point, and an entry point that reports through callbacks receives exactly
\* one success function and one fail function; the count stays at one after
\* the host has reported a failure (no retry).
C17_ExactlyOneHostCall ==
    \A i \in DOMAIN calls :
        /\ calls[i].hostCalls = 1
        /\ calls[i].result = "promise" =>
               /\ IsFunction(Get(calls[i].host, "success"))
               /\ IsFunction(Get(calls[i].host, "fail"))

\* C18: setNavigationBar without reset: the host receives reset false;
\* createAnimation without duration and timeFunction: the host receives
\* duration 400 and timeFunction "linear"; a value the caller gives for any of
\* them is handed on as it is.
C18_NavigationBarAndAnimationDefaults ==
    \A i \in DOMAIN calls :
        /\ calls[i].op \in {"setNavigationBar", "setNavigationBar_spread"} =>
               Get(calls[i].host, "reset") = Default(Get(ArgOf(calls[i]), "reset"), Bool(FALSE))
        /\ calls[i].op = "createAnimation" =>
               /\ Get(calls[i].host, "duration")
                    = Default(Get(ArgOf(calls[i]), "duration"), Num(400))
               /\ Get(calls[i].host, "timeFunction")
                    = Default(Get(ArgOf(calls[i]), "timeFunction"), Str("linear"))

\* C19: an adapter call leaves the caller's configuration object, and the
\* objects nested in it, as they were: after httpRequest with headers that
\* have no Content-Type, the caller's headers still have none.
C19_CallerConfigUntouched ==
    \A i \in DOMAIN calls : calls[i].argAfter = calls[i].arg

\* C20: the host's failure, delivered as a rejection, is the only failure: no
\* adapter raises an exception to its caller, whatever the argument, and no
\* callback of an adapter raises one inside the host, also when the success
\* payload is missing.
C20_NoThrow ==
    \A i \in DOMAIN calls : calls[i].result # "threw" /\ ~calls[i].cbThrew

\* C21: the promise of an adapter that wraps host callbacks is pending in
\* every state in which the host has invoked neither callback, the adapter
\* never completing it on its own, and it is completed once the host has
\* invoked success or fail.
C21_PendingUntilHostCallback ==
    \A i \in DOMAIN calls :
        calls[i].result = "promise" =>
            (calls[i].promise.state = "pending" <=> calls[i].fired = <<>>)

\* what the callbacks call `c` installed can make of the promise of `c`
OwnOutcomes(c) ==
    {Pending}
        \cup {Apply(Get(c.host, "success"), Pending, x).promise : x \in Payloads(c.op)}
        \cup {Apply(Get(c.host, "fail"), Pending, r).promise : r \in Reasons}

\* C22: with several calls in flight, whose callbacks the host invokes in
\* any order, a step changes one call at most: completing one call neither
\* completes another nor changes its outcome; and a promise is changed only
\* to what the callbacks of its own call make of a payload the host gave
\* that call.
C22_CallsIndependent ==
    [][/\ \A i \in DOMAIN calls :
              calls'[i] # calls[i] => \A j \in DOMAIN calls \ {i} : calls'[j] = calls[j]
       /\ \A i \in DOMAIN calls :
              calls'[i].promise # calls[i].promise => calls'[i].promise \in OwnOutcomes(calls[i])]_vars

\* the second call is completed while the first is still waiting for the host
C22_Witness ==
    /\ Len(calls) = 2
    /\ calls[1].op = "httpRequest" /\ calls[1].result = "promise"
    /\ calls[1].fired = <<>> /\ calls[1].promise = Pending
    /\ calls[2].op = "getAuthCode"
    /\ calls[2].fired = <<"success", Obj(<< <<"authCode", Str("c0de")>> >>)>>
    /\ calls[2].promise = Fulfilled(Str("c0de"))

\* the success callbacks the adapters install
OwnSuccess ==
    {Fn("resolve"), Fn("resolve(res)"), Fn("httpRequest.success")}
        \cup {Project(f) : f \in {"index", "authCode", "date", "id", "data"}}

\* C23: the success and fail functions the host receives are the adapter's
\* own, also when the caller's configuration carries fields named success or
\* fail: those never replace them.
C23_CallbacksAreTheAdaptersOwn ==
    \A i \in DOMAIN calls :
        calls[i].result = "promise" =>
            /\ Get(calls[i].host, "success") \in OwnSuccess
            /\ Get(calls[i].host, "fail") = Fn("reject")

\* the spellings of the content-type header name the callers use
ContentTypeSpellings == {"Content-Type", "content-type", "Content-type", "CONTENT-TYPE"}

\* the caller's headers carry a content-type header, whatever its spelling
CarriesContentType(opt) ==
    /\ IsObj(opt)
    /\ IsObj(Get(opt, "headers"))
    /\ \E k \in ContentTypeSpellings : HasKey(Get(opt, "headers"), k)

\* C24: when the caller's headers carry a content-type header under any
\* spelling of the name, httpRequest hands the host the caller's headers with
\* no content-type key added and the body as the caller gave it; the JSON
\* default is for headers with no content-type header at all.
C24_ContentTypeAnySpelling ==
    \A i \in Requests :
        CarriesContentType(calls[i].arg) =>
            /\ Get(calls[i].host, "headers") = Get(calls[i].arg, "headers")
            /\ Get(calls[i].host, "data") = Get(calls[i].arg, "data")

============================================================================
